---- MODULE Spec2Model ----
(***************************************************************************)
(* Model of surfraw_tools/mkelvis.py: the option parsers built with        *)
(* parse_args, the three reference-resolution passes and main's staged     *)
(* control flow, plus the enum-value validator of validation.py.           *)
(*                                                                         *)
(* Spec      : main(args) run on every registry of at most MaxOptions      *)
(*             options (resolution, consistency check, rendering, write).  *)
(* SpecParse : each option parser applied to every raw string of at most   *)
(*             MaxParts colon-separated parts drawn from Parts.            *)
(***************************************************************************)
EXTENDS Naturals, Sequences, FiniteSets

VARIABLES
  pc,          \* position in main
  args,        \* the argparse namespace: flags, bools, enums, aliases, mappings, query_parameter
  declared,    \* args as passed to main, before any pass mutated it
  stderr,      \* the last message main printed to sys.stderr
  exit_code,   \* main's return value: <<>> until main returns, then <<code>>
  log,         \* the stages main has run so far, with their outcomes
  file,        \* the output file args.name as main's write stage leaves it
  raw,         \* the raw string handed to an option parser
  parsed       \* the parser applied and what it returned or raised

vars == <<pc, args, declared, stderr, exit_code, log, file, raw, parsed>>

None == [kind |-> "None", name |-> ""]

----------------------------------------------------------------------------
(* Bounds and input sets *)

MaxOptions == 4
MaxParts == 4

Names == {"a", "b"}
UrlParams == {"a", "q"}

EX_OK == 0
EX_USAGE == 64
EX_SOFTWARE == 70
EX_OSERR == 71

----------------------------------------------------------------------------
(* Option objects.  A target or variable is a name string as parsed; a      *)
(* resolved target is a reference to an option object (its list and        *)
(* position).                                                              *)

Str(n) == [tag |-> "str", name |-> n, kind |-> "", idx |-> 0]
Ref(k, i) == [tag |-> "ref", name |-> "", kind |-> k, idx |-> i]

FlagOption(name, target, value) == [name |-> name, target |-> target, value |-> value]
BoolOption(name, default) == [name |-> name, default |-> default]
EnumOption(name, default, values) == [name |-> name, default |-> default, values |-> values]
AliasOption(name, target) == [name |-> name, target |-> target]
MappingOption(variable, parameter) == [variable |-> variable, parameter |-> parameter]

\* The object a reference denotes, read from the registry as it is now.
Deref(a, r) ==
  IF r.kind = "flag" THEN a.flags[r.idx]
  ELSE IF r.kind = "bool" THEN a.bools[r.idx]
  ELSE a.enums[r.idx]

Refs(k, s) == [i \in 1..Len(s) |-> Ref(k, i)]

\* for option in options: if target == option.name: ...; break  /  else:
\* position of the first option named n, 0 when the for-else branch runs.
RECURSIVE FirstMatchFrom(_, _, _, _)
FirstMatchFrom(a, options, n, i) ==
  IF i > Len(options) THEN 0
  ELSE IF Deref(a, options[i]).name = n THEN i
  ELSE FirstMatchFrom(a, options, n, i + 1)

FirstMatch(a, options, n) == FirstMatchFrom(a, options, n, 1)

OptionResolutionError(k, n) == [kind |-> k, name |-> n]

----------------------------------------------------------------------------
(* The three resolution passes *)

\* Mutant: the candidates chained bools first, then flags, then enums.
resolve_aliases_options_bools_first(a) ==
  Refs("bool", a.bools) \o Refs("flag", a.flags) \o Refs("enum", a.enums)

resolve_aliases_options(a) ==
  Refs("flag", a.flags) \o Refs("bool", a.bools) \o Refs("enum", a.enums)

\* Mutant: an unresolved alias is remembered and the loop carries on, raising
\* the first error only after every alias was processed.
RECURSIVE resolve_aliases_loop_continue(_, _, _)
resolve_aliases_loop_continue(a, options, i) ==
  IF i > Len(a.aliases) THEN [args |-> a, error |-> None]
  ELSE LET m == FirstMatch(a, options, a.aliases[i].target.name)
       IN IF m = 0
          THEN [args |-> resolve_aliases_loop_continue(a, options, i + 1).args,
                error |-> OptionResolutionError("alias", a.aliases[i].name)]
          ELSE resolve_aliases_loop_continue(
                 [a EXCEPT !.aliases[i].target = options[m]], options, i + 1)

RECURSIVE resolve_aliases_loop(_, _, _)
resolve_aliases_loop(a, options, i) ==
  IF i > Len(a.aliases) THEN [args |-> a, error |-> None]
  ELSE LET m == FirstMatch(a, options, a.aliases[i].target.name)
       IN IF m = 0
          THEN [args |-> a, error |-> OptionResolutionError("alias", a.aliases[i].name)]
          ELSE resolve_aliases_loop(
                 [a EXCEPT !.aliases[i].target = options[m]], options, i + 1)

resolve_aliases(a) == resolve_aliases_loop(a, resolve_aliases_options(a), 1)

\* Mutant: flags may target enums as well (the TODO of resolve_flags).
resolve_flags_options_with_enums(a) == Refs("bool", a.bools) \o Refs("enum", a.enums)

resolve_flags_options(a) == Refs("bool", a.bools)

\* Mutant: a match is found but flag.target is not assigned.
RECURSIVE resolve_flags_loop_no_rewrite(_, _, _)
resolve_flags_loop_no_rewrite(a, options, i) ==
  IF i > Len(a.flags) THEN [args |-> a, error |-> None]
  ELSE LET m == FirstMatch(a, options, a.flags[i].target.name)
       IN IF m = 0
          THEN [args |-> a, error |-> OptionResolutionError("flag", a.flags[i].name)]
          ELSE resolve_flags_loop_no_rewrite(a, options, i + 1)

RECURSIVE resolve_flags_loop(_, _, _)
resolve_flags_loop(a, options, i) ==
  IF i > Len(a.flags) THEN [args |-> a, error |-> None]
  ELSE LET m == FirstMatch(a, options, a.flags[i].target.name)
       IN IF m = 0
          THEN [args |-> a, error |-> OptionResolutionError("flag", a.flags[i].name)]
          ELSE resolve_flags_loop(
                 [a EXCEPT !.flags[i].target = options[m]], options, i + 1)

resolve_flags(a) == resolve_flags_loop(a, resolve_flags_options(a), 1)

resolve_mappings_options(a) == Refs("bool", a.bools) \o Refs("enum", a.enums)

\* Mutant: a resolved mapping is rewritten like a flag or an alias.
RECURSIVE resolve_mappings_loop_rewrite(_, _, _)
resolve_mappings_loop_rewrite(a, options, i) ==
  IF i > Len(a.mappings) THEN [args |-> a, error |-> None]
  ELSE LET m == FirstMatch(a, options, a.mappings[i].variable.name)
       IN IF m = 0
          THEN [args |-> a,
                error |-> OptionResolutionError("mapping", a.mappings[i].parameter)]
          ELSE resolve_mappings_loop_rewrite(
                 [a EXCEPT !.mappings[i].variable = options[m]], options, i + 1)

RECURSIVE resolve_mappings_loop(_, _, _)
resolve_mappings_loop(a, options, i) ==
  IF i > Len(a.mappings) THEN [args |-> a, error |-> None]
  ELSE LET m == FirstMatch(a, options, a.mappings[i].variable.name)
       IN IF m = 0
          THEN [args |-> a,
                error |-> OptionResolutionError("mapping", a.mappings[i].parameter)]
          ELSE resolve_mappings_loop(a, options, i + 1)

resolve_mappings(a) == resolve_mappings_loop(a, resolve_mappings_options(a), 1)

----------------------------------------------------------------------------
(* Strings handed to the parsers are sequences of characters *)

Lower == {"a", "b", "c", "d", "e", "f", "g", "h", "i", "j", "k", "l", "m",
          "n", "o", "p", "q", "r", "s", "t", "u", "v", "w", "x", "y", "z"}
Upper == {"A", "B", "C", "D", "E", "F", "G", "H", "I", "J", "K", "L", "M",
          "N", "O", "P", "Q", "R", "S", "T", "U", "V", "W", "X", "Y", "Z"}
Digit == {"0", "1", "2", "3", "4", "5", "6", "7", "8", "9"}

\* str.split(sep): the pieces between the separators, [""] for "".
RECURSIVE Split(_, _)
Split(s, sep) ==
  IF \A i \in 1..Len(s) : s[i] # sep THEN <<s>>
  ELSE LET i == CHOOSE k \in 1..Len(s) :
                  s[k] = sep /\ \A j \in 1..(k - 1) : s[j] # sep
       IN <<SubSeq(s, 1, i - 1)>> \o Split(SubSeq(s, i + 1, Len(s)), sep)

\* sep.join(parts)
RECURSIVE Join(_, _)
Join(parts, sep) ==
  IF Len(parts) = 0 THEN <<>>
  ELSE IF Len(parts) = 1 THEN parts[1]
  ELSE parts[1] \o <<sep>> \o Join(Tail(parts), sep)

\* VALID_SURFRAW_VAR_NAME = "^[a-z]+$"
is_valid_name(name) ==
  Len(name) > 0 /\ \A i \in 1..Len(name) : name[i] \in Lower

\* VALID_URL_PARAM = "^[A-Za-z0-9_]+$"
is_valid_url_parameter(url_param) ==
  /\ Len(url_param) > 0
  /\ \A i \in 1..Len(url_param) : url_param[i] \in Lower \cup Upper \cup Digit \cup {"_"}

TRUE_WORDS == {<<"y", "e", "s">>}
FALSE_WORDS == {<<"n", "o">>}
BOOL_WORDS == TRUE_WORDS \cup FALSE_WORDS

is_valid_bool(bool_arg) == bool_arg \in BOOL_WORDS

\* validation.py: _VALID_ENUM_VALUE_STR = "^[a-z0-9][a-z0-9_+-]*$"; TRUE when
\* validate_enum_value returns the value, FALSE when it raises OptionParseError.
validate_enum_value(value) ==
  /\ Len(value) > 0
  /\ value[1] \in Lower \cup Digit
  /\ \A i \in 2..Len(value) : value[i] \in Lower \cup Digit \cup {"_", "+", "-"}

\* What a parser returns, or the argparse.ArgumentTypeError it raises.
Returned(v) ==
  [ok |-> TRUE, error |-> "", arg |-> <<>>, num_required |-> 0, within |-> <<>>,
   value |-> v]
ArgumentTypeError(e, arg, n, within) ==
  [ok |-> FALSE, error |-> e, arg |-> arg, num_required |-> n, within |-> within,
   value |-> <<>>]

insufficient_spec_parts(arg, num_required) ==
  ArgumentTypeError("insufficient_spec_parts", arg, num_required, <<>>)
invalid_name(name) == ArgumentTypeError("invalid_name", name, 0, <<>>)
invalid_bool(bool_arg) == ArgumentTypeError("invalid_bool", bool_arg, 0, <<>>)
invalid_url_parameter(url_param) ==
  ArgumentTypeError("invalid_url_parameter", url_param, 0, <<>>)

validate_name(name) == IF is_valid_name(name) THEN Returned(name) ELSE invalid_name(name)
validate_bool(bool_) == IF is_valid_bool(bool_) THEN Returned(bool_) ELSE invalid_bool(bool_)
validate_url_parameter(url_param) ==
  IF is_valid_url_parameter(url_param) THEN Returned(url_param)
  ELSE invalid_url_parameter(url_param)
no_validation(arg) == Returned(arg)

\* valid_or_fail_func(arg), the validators being named in the decorator's list
Validate(v, arg) ==
  IF v = "validate_name" THEN validate_name(arg)
  ELSE IF v = "validate_bool" THEN validate_bool(arg)
  ELSE IF v = "validate_url_parameter" THEN validate_url_parameter(arg)
  ELSE no_validation(arg)

\* Mutant: the error states the position of the missing part, not len(validators).
RECURSIVE validate_args_loop_position(_, _, _, _)
validate_args_loop_position(raw_arg, parts, validators, i) ==
  IF i > Len(validators) THEN Returned(SubSeq(parts, 1, Len(validators)))
  ELSE IF i > Len(parts) THEN insufficient_spec_parts(raw_arg, i)
  ELSE LET r == Validate(validators[i], parts[i])
       IN IF r.ok THEN validate_args_loop_position(raw_arg, parts, validators, i + 1)
          ELSE r

\* for i, valid_or_fail_func in enumerate(validators): ...
RECURSIVE validate_args_loop(_, _, _, _)
validate_args_loop(raw_arg, parts, validators, i) ==
  IF i > Len(validators) THEN Returned(SubSeq(parts, 1, Len(validators)))
  ELSE IF i > Len(parts) THEN insufficient_spec_parts(raw_arg, Len(validators))
  ELSE LET r == Validate(validators[i], parts[i])
       IN IF r.ok THEN validate_args_loop(raw_arg, parts, validators, i + 1) ELSE r

validate_args_wrapper(validators, raw_arg) ==
  validate_args_loop(raw_arg, Split(raw_arg, ":"), validators, 1)

FlagValidators == <<"validate_name", "validate_name", "validate_bool">>
BoolValidators == <<"validate_name", "validate_bool">>
EnumValidators == <<"validate_name", "validate_name", "no_validation">>
AliasValidators == <<"validate_name", "validate_name">>
MappingValidators == <<"validate_name", "validate_url_parameter">>
QueryValidators == <<"validate_url_parameter">>

parse_flag_option(raw_arg) ==
  LET v == validate_args_wrapper(FlagValidators, raw_arg)
  IN IF v.ok THEN Returned(FlagOption(v.value[1], v.value[2], v.value[3])) ELSE v

parse_bool_option(raw_arg) ==
  LET v == validate_args_wrapper(BoolValidators, raw_arg)
  IN IF v.ok THEN Returned(BoolOption(v.value[1], v.value[2])) ELSE v

\* Mutant: the default is compared with the first value only.
enum_option_first_value(name, default, orig_values) ==
  LET values == Split(orig_values, ",")
      bad == {i \in 1..Len(values) : ~is_valid_name(values[i])}
  IN IF bad # {}
     THEN invalid_name(values[CHOOSE i \in bad : \A j \in bad : i <= j])
     ELSE IF values[1] # default
     THEN ArgumentTypeError("default_not_within", default, 0, orig_values)
     ELSE Returned(EnumOption(name, default, values))

\* The body of parse_enum_option, run on the validated parts.
enum_option(name, default, orig_values) ==
  LET values == Split(orig_values, ",")
      bad == {i \in 1..Len(values) : ~is_valid_name(values[i])}
  IN IF bad # {}
     THEN invalid_name(values[CHOOSE i \in bad : \A j \in bad : i <= j])
     ELSE IF \A i \in 1..Len(values) : values[i] # default
     THEN ArgumentTypeError("default_not_within", default, 0, orig_values)
     ELSE Returned(EnumOption(name, default, values))

parse_enum_option(raw_arg) ==
  LET v == validate_args_wrapper(EnumValidators, raw_arg)
  IN IF v.ok THEN enum_option(v.value[1], v.value[2], v.value[3]) ELSE v

parse_alias_option(raw_arg) ==
  LET v == validate_args_wrapper(AliasValidators, raw_arg)
  IN IF v.ok THEN Returned(AliasOption(v.value[1], v.value[2])) ELSE v

parse_mapping_option(raw_arg) ==
  LET v == validate_args_wrapper(MappingValidators, raw_arg)
  IN IF v.ok THEN Returned(MappingOption(v.value[1], v.value[2])) ELSE v

parse_query_parameter(raw_arg) ==
  LET v == validate_args_wrapper(QueryValidators, raw_arg)
  IN IF v.ok THEN Returned(v.value[1]) ELSE v

NotParsed == [parser |-> "", result |-> Returned(<<>>)]

\* argparse calls the parser registered as the option's type= on its raw string.
Parse(parser, result) ==
  /\ pc = "parse_args"
  /\ parsed.parser = ""
  /\ parsed' = [parser |-> parser, result |-> result]
  /\ UNCHANGED <<pc, args, declared, stderr, exit_code, log, file, raw>>

ParseFlagOption == Parse("flag", parse_flag_option(raw))
ParseBoolOption == Parse("bool", parse_bool_option(raw))
ParseEnumOption == Parse("enum", parse_enum_option(raw))
ParseAliasOption == Parse("alias", parse_alias_option(raw))
ParseMappingOption == Parse("mapping", parse_mapping_option(raw))
ParseQueryParameter == Parse("query_parameter", parse_query_parameter(raw))

----------------------------------------------------------------------------
(* main *)

Stage(s, ok) == [stage |-> s, ok |-> ok]

\* except OptionResolutionError as e: print(e, file=sys.stderr); return EX_USAGE
ResolutionFailed(r) ==
  /\ args' = r.args
  /\ stderr' = r.error
  /\ exit_code' = <<EX_USAGE>>
  /\ log' = Append(log, Stage("resolution", FALSE))
  /\ pc' = "done"
  /\ UNCHANGED <<declared, file, raw, parsed>>

ResolveAliases ==
  /\ pc = "resolve_aliases"
  /\ LET r == resolve_aliases(args)
     IN IF r.error # None
        THEN ResolutionFailed(r)
        ELSE /\ args' = r.args
             /\ pc' = "resolve_flags"
             /\ UNCHANGED <<declared, stderr, exit_code, log, file, raw, parsed>>

ResolveFlags ==
  /\ pc = "resolve_flags"
  /\ LET r == resolve_flags(args)
     IN IF r.error # None
        THEN ResolutionFailed(r)
        ELSE /\ args' = r.args
             /\ pc' = "resolve_mappings"
             /\ UNCHANGED <<declared, stderr, exit_code, log, file, raw, parsed>>

ResolveMappings ==
  /\ pc = "resolve_mappings"
  /\ LET r == resolve_mappings(args)
     IN IF r.error # None
        THEN ResolutionFailed(r)
        ELSE /\ args' = r.args
             /\ log' = Append(log, Stage("resolution", TRUE))
             /\ pc' = "check"
             /\ UNCHANGED <<declared, stderr, exit_code, file, raw, parsed>>

\* Mutant: the check only fires from the second mapping on.
MappingsWithoutQueryParameter_off_by_one(a) ==
  Len(a.mappings) > 1 /\ a.query_parameter = None

\* len(args.mappings) > 0 and args.query_parameter is None
MappingsWithoutQueryParameter(a) ==
  Len(a.mappings) > 0 /\ a.query_parameter = None

ConsistencyCheck ==
  /\ pc = "check"
  /\ IF MappingsWithoutQueryParameter(args)
     THEN /\ stderr' = [kind |-> "usage", name |-> "--query-parameter"]
          /\ exit_code' = <<EX_USAGE>>
          /\ log' = Append(log, Stage("consistency", FALSE))
          /\ pc' = "done"
     ELSE /\ log' = Append(log, Stage("consistency", TRUE))
          /\ pc' = "render"
          /\ UNCHANGED <<stderr, exit_code>>
  /\ UNCHANGED <<args, declared, file, raw, parsed>>

\* Mutant: a rendering failure is printed but main carries on to the write.
GenerateElvis_no_return ==
  /\ pc = "render"
  /\ \E raised \in BOOLEAN :
       /\ stderr' = IF raised THEN [kind |-> "render", name |-> ""] ELSE stderr
       /\ log' = Append(log, Stage("rendering", ~raised))
  /\ pc' = "write"
  /\ UNCHANGED <<args, declared, exit_code, file, raw, parsed>>

\* generate_elvis is the external renderer: it returns the text or raises.
GenerateElvis ==
  /\ pc = "render"
  /\ \E raised \in BOOLEAN :
       IF raised
       THEN /\ stderr' = [kind |-> "render", name |-> ""]
            /\ exit_code' = <<EX_SOFTWARE>>
            /\ log' = Append(log, Stage("rendering", FALSE))
            /\ pc' = "done"
       ELSE /\ log' = Append(log, Stage("rendering", TRUE))
            /\ pc' = "write"
            /\ UNCHANGED <<stderr, exit_code>>
  /\ UNCHANGED <<args, declared, file, raw, parsed>>

\* open(args.name, "w"), f.write(elvis_program), make_executable(args.name):
\* any of the three may raise OSError.
WriteOutcomes == {"open_failed", "write_failed", "chmod_failed", "ok"}

FileAfter(outcome) ==
  IF outcome = "open_failed" THEN "absent"
  ELSE IF outcome = "write_failed" THEN "truncated"
  ELSE IF outcome = "chmod_failed" THEN "written"
  ELSE "executable"

WriteElvis ==
  /\ pc = "write"
  /\ \E outcome \in WriteOutcomes :
       /\ file' = FileAfter(outcome)
       /\ exit_code' = IF outcome = "ok" THEN <<EX_OK>> ELSE <<EX_OSERR>>
       /\ log' = Append(log, Stage("write", outcome = "ok"))
  /\ pc' = "done"
  /\ UNCHANGED <<args, declared, stderr, raw, parsed>>

----------------------------------------------------------------------------
(* The registries main is run on *)

FlagDecls == {FlagOption(n, Str(t), "yes") : n \in Names, t \in Names}
BoolDecls == {BoolOption(n, "yes") : n \in Names}
EnumDecls == {EnumOption(n, "x", <<"x", "y">>) : n \in Names}
AliasDecls == {AliasOption(n, Str(t)) : n \in Names, t \in Names}
MappingDecls == {MappingOption(Str(v), p) : v \in Names, p \in UrlParams}
QueryParameters == {None, [kind |-> "str", name |-> "q"]}

Init ==
  /\ \E nf \in 0..MaxOptions :
     \E nb \in 0..(MaxOptions - nf) :
     \E ne \in 0..(MaxOptions - nf - nb) :
     \E na \in 0..(MaxOptions - nf - nb - ne) :
     \E nm \in 0..(MaxOptions - nf - nb - ne - na) :
     \E fl \in [1..nf -> FlagDecls], bo \in [1..nb -> BoolDecls],
        en \in [1..ne -> EnumDecls], al \in [1..na -> AliasDecls],
        ma \in [1..nm -> MappingDecls], q \in QueryParameters :
       args = [flags |-> fl, bools |-> bo, enums |-> en, aliases |-> al,
               mappings |-> ma, query_parameter |-> q]
  /\ declared = args
  /\ pc = "resolve_aliases"
  /\ stderr = None
  /\ exit_code = <<>>
  /\ log = <<>>
  /\ file = "absent"
  /\ raw = <<>>
  /\ parsed = NotParsed

Next ==
  \/ ResolveAliases
  \/ ResolveFlags
  \/ ResolveMappings
  \/ ConsistencyCheck
  \/ GenerateElvis
  \/ WriteElvis

Spec == Init /\ [][Next]_vars

----------------------------------------------------------------------------
(* The raw strings the parsers are run on: every string is the join of its *)
(* colon-free parts.                                                       *)

Parts ==
  { <<>>,
    <<"a">>, <<"b">>, <<"n", "o">>, <<"v", "2">>,
    <<"a", ",", "n", "o">>,
    <<"v", "2", ",", "c", "+">>,
    <<"a", ",", "v", "2">>,
    <<"a", ",", "+">> }

RawStrings ==
  {Join(ps, ":") : ps \in UNION {[1..n -> Parts] : n \in 1..MaxParts}}

EmptyArgs ==
  [flags |-> <<>>, bools |-> <<>>, enums |-> <<>>, aliases |-> <<>>,
   mappings |-> <<>>, query_parameter |-> None]

InitParse ==
  /\ raw \in RawStrings
  /\ parsed = NotParsed
  /\ pc = "parse_args"
  /\ args = EmptyArgs
  /\ declared = EmptyArgs
  /\ stderr = None
  /\ exit_code = <<>>
  /\ log = <<>>
  /\ file = "absent"

NextParse ==
  \/ ParseFlagOption
  \/ ParseBoolOption
  \/ ParseEnumOption
  \/ ParseAliasOption
  \/ ParseMappingOption
  \/ ParseQueryParameter

SpecParse == InitParse /\ [][NextParse]_vars

----------------------------------------------------------------------------
(* Properties of main and the resolution passes, checked under Spec *)

HasName(options, n) == \E i \in 1..Len(options) : options[i].name = n

FirstNamed(options, n) ==
  CHOOSE i \in 1..Len(options) :
    options[i].name = n /\ \A j \in 1..(i - 1) : options[j].name # n

Least(S) == CHOOSE i \in S : \A j \in S : i <= j

\* The references of the registry as declared that name no candidate.
UnresolvedAliases ==
  {i \in 1..Len(declared.aliases) :
     LET n == declared.aliases[i].target.name
     IN ~HasName(declared.flags, n) /\ ~HasName(declared.bools, n)
        /\ ~HasName(declared.enums, n)}

UnresolvedFlags ==
  {i \in 1..Len(declared.flags) :
     ~HasName(declared.bools, declared.flags[i].target.name)}

UnresolvedMappings ==
  {i \in 1..Len(declared.mappings) :
     LET n == declared.mappings[i].variable.name
     IN ~HasName(declared.bools, n) /\ ~HasName(declared.enums, n)}

AliasPassRan == pc \notin {"parse_args", "resolve_aliases"}
FlagPassRan == AliasPassRan /\ pc # "resolve_flags" /\ stderr.kind # "alias"
MappingPassRan == FlagPassRan /\ pc # "resolve_mappings" /\ stderr.kind # "flag"

ResolutionRaised == pc = "done" /\ stderr.kind \in {"alias", "flag", "mapping"}
ResolutionSucceeded == Len(log) >= 1 /\ log[1] = Stage("resolution", TRUE)

Resolved(t) == t.tag = "ref"

\* C1 as stated: whenever a pass raises OptionResolutionError, every
\* alias.target and every flag.target still holds the name string it was
\* declared with (no partial application).
C1_AllOrNothing ==
  ResolutionRaised =>
    /\ \A i \in 1..Len(args.aliases) :
         args.aliases[i].target = declared.aliases[i].target
    /\ \A i \in 1..Len(args.flags) :
         args.flags[i].target = declared.flags[i].target

\* C1 amended: a pass stops at its first unresolved reference and aborts the
\* resolution step (nothing at or after that reference is touched, no later
\* pass or stage runs, main returns EX_USAGE), but the references before it,
\* and those of the passes already completed, stay rewritten.
C1_StopsAtFirstUnresolved ==
  ResolutionRaised =>
    /\ exit_code = <<EX_USAGE>>
    /\ log = <<Stage("resolution", FALSE)>>
    /\ file = "absent"
    /\ stderr.kind = "alias" =>
         /\ UnresolvedAliases # {}
         /\ \A i \in 1..Len(args.aliases) :
              IF i < Least(UnresolvedAliases)
              THEN Resolved(args.aliases[i].target)
              ELSE args.aliases[i] = declared.aliases[i]
         /\ args.flags = declared.flags
    /\ stderr.kind = "flag" =>
         /\ UnresolvedFlags # {}
         /\ \A i \in 1..Len(args.aliases) : Resolved(args.aliases[i].target)
         /\ \A i \in 1..Len(args.flags) :
              IF i < Least(UnresolvedFlags)
              THEN Resolved(args.flags[i].target)
              ELSE args.flags[i] = declared.flags[i]
    /\ stderr.kind = "mapping" =>
         /\ \A i \in 1..Len(args.aliases) : Resolved(args.aliases[i].target)
         /\ \A i \in 1..Len(args.flags) : Resolved(args.flags[i].target)
    /\ args.mappings = declared.mappings

\* An alias was rewritten before a later alias made the pass raise.
C1_Witness ==
  /\ ResolutionRaised
  /\ stderr.kind = "alias"
  /\ \E i \in 1..Len(args.aliases) : Resolved(args.aliases[i].target)
  /\ \E i \in 1..Len(args.aliases) : ~Resolved(args.aliases[i].target)

\* C2: once resolve_flags has run, a flag whose target names no BoolOption
\* (whatever else bears that name) has made resolution fail with the error
\* naming the first such flag, and every flag processed references the first
\* BoolOption, in declaration order, that bears its target name.
C2_FlagsSearchBoolsOnly ==
  FlagPassRan =>
    LET first_bool(i) ==
          Ref("bool", FirstNamed(declared.bools, declared.flags[i].target.name))
    IN IF UnresolvedFlags # {}
       THEN /\ pc = "done"
            /\ exit_code = <<EX_USAGE>>
            /\ stderr = OptionResolutionError(
                          "flag", declared.flags[Least(UnresolvedFlags)].name)
            /\ \A i \in 1..(Least(UnresolvedFlags) - 1) :
                 args.flags[i].target = first_bool(i)
       ELSE /\ stderr.kind # "flag"
            /\ \A i \in 1..Len(args.flags) : args.flags[i].target = first_bool(i)

\* The pass raised on a flag whose target names an EnumOption, after it had
\* rewritten an earlier flag.
C2_Witness ==
  /\ FlagPassRan
  /\ stderr.kind = "flag"
  /\ UnresolvedFlags # {}
  /\ HasName(declared.enums, declared.flags[Least(UnresolvedFlags)].target.name)
  /\ \E i \in 1..Len(args.flags) : Resolved(args.flags[i].target)

\* The option an alias declared with target name n has to reference.
AliasExpected(n) ==
  IF HasName(declared.flags, n) THEN Ref("flag", FirstNamed(declared.flags, n))
  ELSE IF HasName(declared.bools, n) THEN Ref("bool", FirstNamed(declared.bools, n))
  ELSE Ref("enum", FirstNamed(declared.enums, n))

\* C3: once resolve_aliases has run, every alias processed references the
\* first option bearing its target name in flags, then bools, then enums; an
\* alias whose target names none of them has made resolution fail with the
\* error naming the first such alias.
C3_AliasesFirstMatch ==
  AliasPassRan =>
    IF UnresolvedAliases # {}
    THEN /\ pc = "done"
         /\ exit_code = <<EX_USAGE>>
         /\ stderr = OptionResolutionError(
                       "alias", declared.aliases[Least(UnresolvedAliases)].name)
         /\ \A i \in 1..(Least(UnresolvedAliases) - 1) :
              args.aliases[i].target = AliasExpected(declared.aliases[i].target.name)
    ELSE /\ stderr.kind # "alias"
         /\ \A i \in 1..Len(args.aliases) :
              args.aliases[i].target = AliasExpected(declared.aliases[i].target.name)

\* An alias was resolved to a flag although a bool bears the same name.
C3_Witness ==
  /\ AliasPassRan
  /\ \E i \in 1..Len(args.aliases) :
       /\ Resolved(args.aliases[i].target)
       /\ args.aliases[i].target.kind = "flag"
       /\ HasName(declared.bools, declared.aliases[i].target.name)

\* C4: when resolution succeeded, mappings declared without a query
\* parameter end main in the usage failure before rendering; otherwise the
\* check passes and rendering is reached.
C4_MappingsNeedQueryParameter ==
  LET forbidden == Len(declared.mappings) > 0 /\ declared.query_parameter = None
  IN /\ pc \in {"render", "write"} => ~forbidden
     /\ (pc = "done" /\ ResolutionSucceeded) =>
          IF forbidden
          THEN /\ log = <<Stage("resolution", TRUE), Stage("consistency", FALSE)>>
               /\ exit_code = <<EX_USAGE>>
               /\ stderr.kind = "usage"
               /\ file = "absent"
          ELSE /\ Len(log) >= 3
               /\ log[2] = Stage("consistency", TRUE)
               /\ log[3].stage = "rendering"

\* A run with a mapping and no query parameter ended in the check.
C4_Witness ==
  /\ pc = "done"
  /\ ResolutionSucceeded
  /\ Len(declared.mappings) > 0
  /\ declared.query_parameter = None

StageOrder == <<"resolution", "consistency", "rendering", "write">>

FailureCode(stage) ==
  IF stage \in {"resolution", "consistency"} THEN EX_USAGE
  ELSE IF stage = "rendering" THEN EX_SOFTWARE
  ELSE EX_OSERR

\* C5: the stages run in the order resolution, consistency check, rendering,
\* write; only the last stage run can have failed; main's return code is that
\* of the failed stage, EX_OK exactly when all four succeeded; nothing is
\* written unless the three earlier stages succeeded.
C5_ExitContract ==
  /\ Len(log) <= Len(StageOrder)
  /\ \A i \in 1..Len(log) :
       /\ log[i].stage = StageOrder[i]
       /\ i < Len(log) => log[i].ok
  /\ (pc = "done") = (exit_code # <<>>)
  /\ pc # "done" => \A i \in 1..Len(log) : log[i].ok
  /\ pc = "done" =>
       /\ Len(log) >= 1
       /\ IF log[Len(log)].ok
          THEN Len(log) = Len(StageOrder) /\ exit_code = <<EX_OK>>
          ELSE exit_code = <<FailureCode(log[Len(log)].stage)>>
  /\ file # "absent" => Len(log) = Len(StageOrder)
  /\ file = "executable" <=> exit_code = <<EX_OK>>

\* All four stages ran and the last one failed after the file was written.
C5_Witness ==
  /\ pc = "done"
  /\ exit_code = <<EX_OSERR>>
  /\ file = "written"
  /\ Len(log) = Len(StageOrder)

\* C9: resolve_mappings changes nothing in the registry; it succeeds exactly
\* when every mapping's variable names a bool or an enum, and otherwise
\* raises the error citing the parameter of the first unresolved mapping.
C9_MappingsOnlyChecked ==
  [][pc = "resolve_mappings" =>
       /\ args' = args
       /\ IF UnresolvedMappings = {}
          THEN pc' = "check" /\ stderr' = None
          ELSE /\ pc' = "done"
               /\ exit_code' = <<EX_USAGE>>
               /\ stderr' = OptionResolutionError(
                    "mapping", declared.mappings[Least(UnresolvedMappings)].parameter)
  ]_vars

\* The pass raised on the second mapping after accepting the first.
C9_Witness ==
  /\ MappingPassRan
  /\ stderr.kind = "mapping"
  /\ UnresolvedMappings # {}
  /\ Least(UnresolvedMappings) > 1

\* The error main has to report for the registry as declared.
FirstUnresolvedError ==
  IF UnresolvedAliases # {}
  THEN OptionResolutionError("alias", declared.aliases[Least(UnresolvedAliases)].name)
  ELSE IF UnresolvedFlags # {}
  THEN OptionResolutionError("flag", declared.flags[Least(UnresolvedFlags)].name)
  ELSE OptionResolutionError(
         "mapping", declared.mappings[Least(UnresolvedMappings)].parameter)

\* C10: when the three passes succeed no target is a name string any more:
\* each flag references a bool bearing its declared target name, each alias
\* a flag, bool or enum bearing its declared target name, and a flag reached
\* through an alias has its target resolved; when resolution fails the error
\* is that of the first unresolved alias, else flag, else mapping.
C10_ResolvedPostcondition ==
  /\ ResolutionSucceeded =>
       /\ \A i \in 1..Len(args.flags) :
            LET t == args.flags[i].target
            IN /\ Resolved(t)
               /\ t.kind = "bool"
               /\ t.idx \in 1..Len(args.bools)
               /\ Deref(args, t).name = declared.flags[i].target.name
       /\ \A i \in 1..Len(args.aliases) :
            LET t == args.aliases[i].target
            IN /\ Resolved(t)
               /\ t.kind \in {"flag", "bool", "enum"}
               /\ t.idx \in 1..Len(IF t.kind = "flag" THEN args.flags
                                   ELSE IF t.kind = "bool" THEN args.bools
                                   ELSE args.enums)
               /\ Deref(args, t).name = declared.aliases[i].target.name
               /\ t.kind = "flag" =>
                    /\ Resolved(Deref(args, t).target)
                    /\ Deref(args, t).target.kind = "bool"
                    /\ Deref(args, Deref(args, t).target).name
                         = declared.flags[t.idx].target.name
  /\ ResolutionRaised => stderr = FirstUnresolvedError

\* Resolution succeeded with an alias referencing a flag.
C10_Witness ==
  /\ ResolutionSucceeded
  /\ \E i \in 1..Len(args.aliases) : args.aliases[i].target.kind = "flag"

----------------------------------------------------------------------------
(* Properties of the option parsers, checked under SpecParse *)

WasParsed == parsed.parser # ""

\* The validators, one per field, the decorator of each parser lists.
ValidatorsOf(parser) ==
  IF parser = "flag" THEN FlagValidators
  ELSE IF parser = "bool" THEN BoolValidators
  ELSE IF parser = "enum" THEN EnumValidators
  ELSE IF parser = "alias" THEN AliasValidators
  ELSE IF parser = "mapping" THEN MappingValidators
  ELSE QueryValidators

RawParts == Split(raw, ":")
Required == Len(ValidatorsOf(parsed.parser))

\* The parts present whose validator rejects them.
InvalidParts ==
  {i \in 1..Len(RawParts) :
     i <= Required /\ ~Validate(ValidatorsOf(parsed.parser)[i], RawParts[i]).ok}

IsInsufficientParts(r) ==
  /\ ~r.ok
  /\ r.error = "insufficient_spec_parts"
  /\ r.arg = raw
  /\ r.num_required = Required

Member(x, seq) == \E i \in 1..Len(seq) : seq[i] = x

\* The enum spec has its three parts, each of the shape the parser demands.
EnumWellFormed ==
  /\ Len(RawParts) >= 3
  /\ is_valid_name(RawParts[1])
  /\ is_valid_name(RawParts[2])
  /\ \A v \in {Split(RawParts[3], ",")[i] : i \in 1..Len(Split(RawParts[3], ","))} :
       is_valid_name(v)

\* C6: an enum spec whose default is not among its comma-separated values
\* never parses, however many values it declares, and a well-formed one
\* fails with the error citing the default and the value list; a well-formed
\* spec whose default is among the values parses to the EnumOption with that
\* name, that default and the values in declared order.
C6_EnumDefaultWithinValues ==
  (parsed.parser = "enum" /\ Len(RawParts) >= 3) =>
    LET values == Split(RawParts[3], ",")
    IN /\ ~Member(RawParts[2], values) => ~parsed.result.ok
       /\ (EnumWellFormed /\ ~Member(RawParts[2], values)) =>
            parsed.result =
              ArgumentTypeError("default_not_within", RawParts[2], 0, RawParts[3])
       /\ (EnumWellFormed /\ Member(RawParts[2], values)) =>
            parsed.result = Returned(EnumOption(RawParts[1], RawParts[2], values))

\* A well-formed enum spec with two values was rejected for its default.
C6_Witness ==
  /\ parsed.parser = "enum"
  /\ EnumWellFormed
  /\ Len(Split(RawParts[3], ",")) = 2
  /\ parsed.result.error = "default_not_within"

\* C7 as stated: a raw string of fewer parts than the parser has fields
\* fails with the error stating the required part count and no other, and
\* one with enough parts is never rejected for its part count.
C7_TooFewPartsAlwaysCounted ==
  WasParsed =>
    /\ Len(RawParts) < Required => IsInsufficientParts(parsed.result)
    /\ Len(RawParts) >= Required => parsed.result.error # "insufficient_spec_parts"

\* C7 amended: a raw string of fewer parts than the parser has fields always
\* fails; the error is the one stating the required part count when every
\* part present passes its validator, and otherwise the validation error of
\* the first invalid part present; a raw string with enough parts is never
\* rejected for its part count.
C7_TooFewPartsFails ==
  WasParsed =>
    /\ Len(RawParts) < Required =>
         /\ ~parsed.result.ok
         /\ IF InvalidParts = {}
            THEN IsInsufficientParts(parsed.result)
            ELSE parsed.result =
                   Validate(ValidatorsOf(parsed.parser)[Least(InvalidParts)],
                            RawParts[Least(InvalidParts)])
    /\ Len(RawParts) >= Required => parsed.result.error # "insufficient_spec_parts"

\* A flag spec of two valid parts was rejected for its part count.
C7_Witness ==
  /\ parsed.parser = "flag"
  /\ Len(RawParts) = 2
  /\ InvalidParts = {}
  /\ IsInsufficientParts(parsed.result)

\* C8 as stated: the enum parser accepts the value list of a spec (with a
\* valid name and a default among the values) exactly when every value
\* matches the enum-value pattern [a-z0-9][a-z0-9_+-]*.
C8_EnumValuesByPattern ==
  (parsed.parser = "enum" /\ Len(RawParts) >= 3) =>
    LET values == Split(RawParts[3], ",")
    IN (is_valid_name(RawParts[1]) /\ Member(RawParts[2], values)) =>
         (parsed.result.ok <=> \A i \in 1..Len(values) : validate_enum_value(values[i]))

====
